---- MODULE Spec2Model ----
(***************************************************************************)
(* Self-directed group chat (samples/experimental/self_directed_agents.py): *)
(* the termination and speaker-selection policies, the SelfDirectedAgent    *)
(* wrapper and the GroupChat loop that drives them.                         *)
(*                                                                          *)
(* Spec   : the conversation driven by step(), from an empty history, over  *)
(*          every neighbour graph of the agent universe.                    *)
(* SpecFn : the policies and agent methods called directly, as functions,   *)
(*          on histories and candidate lists drawn from bounded sets.       *)
(***************************************************************************)
EXTENDS Naturals, Sequences, FiniteSets

VARIABLES
    neighbors,   \* SelfDirectedAgent.neighbors, per agent (None or a list)
    roster,      \* GroupChat's ordered agent list
    history,     \* GroupChat's chat history: the turns appended so far
    done,        \* GroupChat's cached termination verdict
    policy,      \* the attributes of the SelfDirectedTermination instance
    pc,          \* "idle", or "awaiting" while a step() awaits the inner agent
    cur,         \* the step() in flight: its speaker, hint and candidate pool
    last,        \* outcome of the last operation the driver completed
    call         \* SpecFn: the last direct call, its arguments and its result

vars == <<neighbors, roster, history, done, policy, pc, cur, last, call>>

----------------------------------------------------------------------------
(* Bounds and universes *)

MaxTurns == 3     \* step() is not called once the history has this many turns
MaxNbrs == 2      \* longest neighbour / candidate list
MaxFnLen == 2     \* longest history handed to a direct call (SpecFn)

Agents == {"a", "b", "c"}
AgentOrder == <<"a", "b", "c">>
None == "None"

\* Optional[Sequence[Agent]]: None, or a list
NoList == [some |-> FALSE, seq |-> <<>>]
Some(s) == [some |-> TRUE, seq |-> s]

AgentLists ==
    { SelectSeq(AgentOrder, LAMBDA x : x \in S) :
        S \in { T \in SUBSET Agents : Cardinality(T) <= MaxNbrs } }

NbrChoices == {NoList} \cup { Some(s) : s \in AgentLists }
Graphs == [Agents -> NbrChoices]
Rosters == { SubSeq(AgentOrder, 1, n) : n \in 1..Len(AgentOrder) }

Range(s) == { s[i] : i \in 1..Len(s) }

----------------------------------------------------------------------------
(* Data *)

\* MessageContextWithSpeakerSelection: recipient is Required; candidates is an
\* optional key; other stands for the keys of the base MessageContext.
Context(recipient, hasCandidates, candidates, other) ==
    [recipient |-> recipient, hasCandidates |-> hasCandidates,
     candidates |-> candidates, other |-> other]

\* One turn of the history: the message (its source) and its context.
Turn(source, context) == [source |-> source, context |-> context]

\* chat_history.contexts[-1]
last_context(chat_history) == chat_history[Len(chat_history)].context

Terminated == [terminated |-> TRUE, reason |-> "GOAL_REACHED", explanation |-> "No recipient"]
NotTerminated == [terminated |-> FALSE, reason |-> "", explanation |-> ""]

----------------------------------------------------------------------------
(* SelfDirectedTermination *)

\* The instance defines no attributes.
NoAttributes == {}

\* Mutant: the policy remembers who has spoken.
record_turn_taken_counts(self, agent) == self \cup {agent}

\* The attributes of the policy after record_turn_taken(agent).
record_turn_taken(self, agent) == self

\* The attributes of the policy after reset().
reset(self) == self

\* Mutant: a conversation cannot end on its first turn.
check_termination_two(chat_history) ==
    IF Len(chat_history) > 1
    THEN IF last_context(chat_history).recipient = None
         THEN Terminated
         ELSE NotTerminated
    ELSE NotTerminated

\* Mutant: the verdict looks at the first turn instead of the last.
check_termination_first(chat_history) ==
    IF Len(chat_history) > 0
    THEN IF chat_history[1].context.recipient = None
         THEN Terminated
         ELSE NotTerminated
    ELSE NotTerminated

\* Mutant: the policy never reports termination.
check_termination_never(chat_history) == NotTerminated

check_termination(chat_history) ==
    IF Len(chat_history) > 0
    THEN IF last_context(chat_history).recipient = None
         THEN Terminated
         ELSE NotTerminated
    ELSE NotTerminated

(* SelfDirectedSpeakerSelection *)

Selected(speaker) == [raised |-> "", speaker |-> speaker, hint |-> None]
Raised(what) == [raised |-> what, speaker |-> None, hint |-> None]

\* Mutant: a recipient outside the roster is replaced by the first agent.
select_speaker_checked(agents, chat_history) ==
    IF Len(chat_history) > 0
    THEN IF last_context(chat_history).recipient = None
         THEN Raised("AssertionError")
         ELSE IF last_context(chat_history).recipient \in { agents[i] : i \in 1..Len(agents) }
              THEN Selected(last_context(chat_history).recipient)
              ELSE Selected(agents[1])
    ELSE Selected(agents[1])

\* Mutant: the recipient of the last turn is ignored.
select_speaker_first(agents, chat_history) == Selected(agents[1])

\* Mutant: the walk starts with the last agent of the roster.
select_speaker_from_last(agents, chat_history) ==
    IF Len(chat_history) > 0
    THEN IF last_context(chat_history).recipient = None
         THEN Raised("AssertionError")
         ELSE Selected(last_context(chat_history).recipient)
    ELSE Selected(agents[Len(agents)])

\* Mutant: a missing recipient restarts the walk instead of failing.
select_speaker_restart(agents, chat_history) ==
    IF Len(chat_history) > 0 /\ last_context(chat_history).recipient # None
    THEN Selected(last_context(chat_history).recipient)
    ELSE Selected(agents[1])

select_speaker(agents, chat_history) ==
    IF Len(chat_history) > 0
    THEN IF last_context(chat_history).recipient = None
         THEN Raised("AssertionError")
         ELSE Selected(last_context(chat_history).recipient)
    ELSE Selected(agents[1])

(* SelfDirectedAgent *)

\* The possible results of select_recipient: the recipient, and whether
\* random.choice was called to obtain it.
\* Mutant: None is not added to the choice.
select_recipient_no_none(chat_history, candidates) ==
    IF Len(candidates) = 1
    THEN { [recipient |-> candidates[1], random |-> FALSE] }
    ELSE { [recipient |-> r, random |-> TRUE] : r \in Range(candidates) }

\* Mutant: the single-candidate shortcut is missing.
select_recipient_random(chat_history, candidates) ==
    { [recipient |-> r, random |-> TRUE] : r \in Range(candidates) \cup {None} }

select_recipient(chat_history, candidates) ==
    IF Len(candidates) = 1
    THEN { [recipient |-> candidates[1], random |-> FALSE] }
    ELSE { [recipient |-> r, random |-> TRUE] : r \in Range(candidates) \cup {None} }

\* nbrs is the neighbors attribute of every agent (recipient.neighbors is read).
\* Mutant: no recipient yields None instead of an empty list.
suggest_candidates_none(nbrs, chat_history, recipient) ==
    IF recipient = None THEN NoList ELSE nbrs[recipient]

suggest_candidates(nbrs, chat_history, recipient) ==
    IF recipient = None THEN Some(<<>>) ELSE nbrs[recipient]

\* Mutant: an empty candidates list in the last context counts as absent.
candidate_pool_truthy(self, nbrs, chat_history) ==
    IF ~nbrs[self].some
    THEN [raised |-> "AssertionError", candidates |-> NoList]
    ELSE IF /\ Len(chat_history) > 0
            /\ last_context(chat_history).hasCandidates
            /\ last_context(chat_history).candidates.seq # <<>>
         THEN [raised |-> "", candidates |-> last_context(chat_history).candidates]
         ELSE [raised |-> "", candidates |-> nbrs[self]]

\* generate_reply up to its await: the assertion and the candidate pool.
candidate_pool(self, nbrs, chat_history) ==
    IF ~nbrs[self].some
    THEN [raised |-> "AssertionError", candidates |-> NoList]
    ELSE IF Len(chat_history) > 0
         THEN [raised |-> "",
               candidates |-> IF last_context(chat_history).hasCandidates
                              THEN last_context(chat_history).candidates
                              ELSE nbrs[self]]
         ELSE [raised |-> "", candidates |-> nbrs[self]]

\* What the inner agent may return: a bare reply, or (reply, context) where the
\* context may already hold recipient / candidates values of its own.
BareReply == [tuple |-> FALSE, context |-> Context(None, FALSE, NoList, FALSE)]
TupleReply(context) == [tuple |-> TRUE, context |-> context]

InnerResponses(self) ==
    { BareReply,
      TupleReply(Context(None, FALSE, NoList, TRUE)),
      TupleReply(Context(None, TRUE, Some(<<self>>), TRUE)),
      TupleReply(Context(self, TRUE, Some(<<self>>), TRUE)) }

\* The context generate_reply returns, given the inner response, the elected
\* recipient and the suggested candidates.
\* Mutant: candidates supplied by the inner agent are kept.
stamp_context_setdefault(response, recipient, suggested) ==
    IF response.tuple
    THEN [response.context EXCEPT
            !.recipient = recipient,
            !.hasCandidates = TRUE,
            !.candidates = IF response.context.hasCandidates
                           THEN response.context.candidates ELSE suggested]
    ELSE Context(recipient, TRUE, suggested, FALSE)

\* Mutant: the context of the inner agent is replaced by a new one.
stamp_context_fresh(response, recipient, suggested) ==
    Context(recipient, TRUE, suggested, FALSE)

\* Mutant: a recipient supplied by the inner agent is kept.
stamp_context_keep(response, recipient, suggested) ==
    IF response.tuple
    THEN [response.context EXCEPT !.hasCandidates = TRUE,
                                  !.candidates = suggested]
    ELSE Context(recipient, TRUE, suggested, FALSE)

stamp_context(response, recipient, suggested) ==
    IF response.tuple
    THEN [response.context EXCEPT !.recipient = recipient,
                                  !.hasCandidates = TRUE,
                                  !.candidates = suggested]
    ELSE Context(recipient, TRUE, suggested, FALSE)

\* generate_reply after its await: the possible outcomes, each a (reply, context)
\* turn or an error. candidates is the pool computed before the await; len() of
\* a pool that is None raises TypeError.
generate_reply(self, nbrs, chat_history, candidates, response) ==
    IF ~candidates.some
    THEN { [raised |-> "TypeError", recipient |-> None,
            turn |-> Turn(self, response.context), random |-> FALSE] }
    ELSE { [raised |-> "",
            recipient |-> sel.recipient,
            turn |-> Turn(self, stamp_context(response, sel.recipient,
                              suggest_candidates(nbrs, chat_history, sel.recipient))),
            random |-> sel.random] :
             sel \in select_recipient(chat_history, candidates.seq) }

----------------------------------------------------------------------------
(* GroupChat *)

NoStep == [speaker |-> None, hint |-> None, candidates |-> NoList]
NoOp == [op |-> "none", outcome |-> "", value |-> FALSE, random |-> FALSE,
         speaker |-> None, candidates |-> NoList]
NoCall == [op |-> "none"]

\* What the driver learns from a step(): how it ended, who spoke, from which
\* candidate pool, and whether the random source was consulted.
StepEnded(outcome, step, random) ==
    [op |-> "step", outcome |-> outcome, value |-> FALSE, random |-> random,
     speaker |-> step.speaker, candidates |-> step.candidates]
DoneRead(value) ==
    [op |-> "done", outcome |-> "ok", value |-> value, random |-> FALSE,
     speaker |-> None, candidates |-> NoList]

\* The most recent turns of a history.
recent(chat_history) ==
    IF Len(chat_history) > MaxTurns THEN Tail(chat_history) ELSE chat_history

\* The turns of the history the model stores.
stored(all, chat_history) == IF all THEN chat_history ELSE recent(chat_history)

\* Mutant: the new turn overwrites the last one.
append_overwrite(chat_history, turn) ==
    IF Len(chat_history) = 0 THEN <<turn>>
    ELSE [chat_history EXCEPT ![Len(chat_history)] = turn]

\* ChatHistory.append
append(chat_history, turn) == Append(chat_history, turn)

\* Mutant: the turn is appended before the agent call is awaited.
abandoned_partial(chat_history, step) ==
    Append(chat_history, Turn(step.speaker, Context(None, FALSE, NoList, FALSE)))

\* The history a step() leaves behind when the agent call does not complete.
abandoned(chat_history, step) == chat_history

\* step() refuses to run once the conversation is done.
already_done(d) == d

Init ==
    /\ neighbors \in Graphs
    /\ roster \in Rosters
    /\ history = <<>>
    /\ done = FALSE
    /\ policy = NoAttributes
    /\ pc = "idle"
    /\ cur = NoStep
    /\ last = NoOp
    /\ call = NoCall

\* chat.done
ReadDone ==
    /\ pc = "idle"
    /\ last' = DoneRead(done)
    /\ UNCHANGED <<neighbors, roster, history, done, policy, pc, cur, call>>

\* step(), up to the await of the inner agent's reply: the done check, the
\* speaker selection and the part of generate_reply before its await.
StepBegins(more) ==
    /\ pc = "idle"
    /\ done \/ more
    /\ IF already_done(done)
       THEN /\ last' = StepEnded("AlreadyDoneError", NoStep, FALSE)
            /\ UNCHANGED <<pc, cur>>
       ELSE LET sel == select_speaker(roster, history)
                pool == candidate_pool(sel.speaker, neighbors, history)
            IN  IF sel.raised # ""
                THEN /\ last' = StepEnded(sel.raised, NoStep, FALSE)
                     /\ UNCHANGED <<pc, cur>>
                ELSE IF pool.raised # ""
                THEN /\ last' = StepEnded(pool.raised,
                                   [speaker |-> sel.speaker, hint |-> sel.hint,
                                    candidates |-> NoList], FALSE)
                     /\ UNCHANGED <<pc, cur>>
                ELSE /\ pc' = "awaiting"
                     /\ cur' = [speaker |-> sel.speaker, hint |-> sel.hint,
                             candidates |-> pool.candidates]
                     /\ UNCHANGED last
    /\ UNCHANGED <<neighbors, roster, history, done, policy, call>>

\* step() is called while the history has fewer than MaxTurns turns, or after
\* the conversation is done.
StepCall == StepBegins(Len(history) < MaxTurns)

\* The inner agent returns: generate_reply completes, the turn is appended and
\* the termination verdict is recomputed (record_turn_taken does nothing).
\* all tells whether the model goes on storing every turn of the history, or
\* its most recent turns only.
Replies(all) ==
    /\ pc = "awaiting"
    /\ \E response \in InnerResponses(cur.speaker) :
         \E res \in generate_reply(cur.speaker, neighbors, history, cur.candidates, response) :
            IF res.raised # ""
            THEN /\ history' = abandoned(history, cur)
                 /\ done' = done
                 /\ policy' = policy
                 /\ last' = StepEnded(res.raised, cur, FALSE)
            ELSE /\ history' = stored(all, append(history, res.turn))
                 /\ policy' = record_turn_taken(policy, cur.speaker)
                 /\ done' = check_termination(history').terminated
                 /\ last' = StepEnded("ok", cur, res.random)
    /\ pc' = "idle"
    /\ cur' = NoStep
    /\ UNCHANGED <<neighbors, roster, call>>

BackendReply == Replies(TRUE)

\* The inner agent's backend raises: the error propagates out of step().
BackendError ==
    /\ pc = "awaiting"
    /\ history' = abandoned(history, cur)
    /\ last' = StepEnded("BackendError", cur, FALSE)
    /\ pc' = "idle"
    /\ cur' = NoStep
    /\ UNCHANGED <<neighbors, roster, done, policy, call>>

\* The caller abandons the await of step().
Cancel ==
    /\ pc = "awaiting"
    /\ history' = abandoned(history, cur)
    /\ last' = StepEnded("Cancelled", cur, FALSE)
    /\ pc' = "idle"
    /\ cur' = NoStep
    /\ UNCHANGED <<neighbors, roster, done, policy, call>>

\* reset() of the termination policy, called between two steps.
Reset ==
    /\ pc = "idle"
    /\ policy' = reset(policy)
    /\ UNCHANGED <<neighbors, roster, history, done, pc, cur, last, call>>

Next == ReadDone \/ StepCall \/ BackendReply \/ BackendError \/ Cancel \/ Reset

Spec == Init /\ [][Next]_vars

----------------------------------------------------------------------------
(* The conversation of main(), without a bound on its length (SpecStar).    *)
(* No code reads a turn other than the last one (contexts[-1]) or more of   *)
(* the length than len(chat_history) > 0, so only the last MaxTurns turns   *)
(* are stored: speakers, pools and verdicts are those of the full history.  *)

\* The star graph and roster of main().
SampleGraph ==
    [x \in Agents |-> IF x = "b" THEN Some(<<"a", "c">>) ELSE Some(<<"b">>)]

InitStar ==
    /\ neighbors = SampleGraph
    /\ roster = AgentOrder
    /\ history = <<>>
    /\ done = FALSE
    /\ policy = NoAttributes
    /\ pc = "idle"
    /\ cur = NoStep
    /\ last = NoOp
    /\ call = NoCall

StarStep == StepBegins(TRUE)

StarReply == Replies(FALSE)

\* The step() in flight completes with a turn whose random choice fell on r.
StarNominates(r) ==
    /\ StarReply
    /\ last'.outcome = "ok"
    /\ history'[Len(history')].context.recipient = r

NextStar == ReadDone \/ StarStep \/ StarReply \/ BackendError \/ Cancel \/ Reset

\* The loop of main() keeps calling step(); an option the random choice is
\* offered infinitely often is eventually taken.
SpecStar ==
    /\ InitStar
    /\ [][NextStar]_vars
    /\ WF_vars(StarStep)
    /\ \A r \in Agents \cup {None} : SF_vars(StarNominates(r))

----------------------------------------------------------------------------
(* Direct calls of the policies and agent methods (SpecFn): each behaviour  *)
(* makes one call, on arguments drawn from the sets below.                  *)

\* The contexts a history handed to a direct call may hold: any recipient, the
\* candidates key absent or holding any list. No function reads the messages.
FnContexts ==
    { Context(r, FALSE, NoList, FALSE) : r \in Agents \cup {None} }
    \cup { Context(r, TRUE, Some(s), FALSE) : r \in Agents \cup {None}, s \in AgentLists }

FnTurns == { Turn(AgentOrder[1], c) : c \in FnContexts }

RECURSIVE SeqsUpTo(_, _)
SeqsUpTo(S, n) ==
    IF n = 0 THEN { <<>> }
    ELSE LET shorter == SeqsUpTo(S, n - 1)
         IN  shorter \cup { Append(h, t) : h \in { x \in shorter : Len(x) = n - 1 }, t \in S }

FnHistories == SeqsUpTo(FnTurns, MaxFnLen)
FnShortHistories == SeqsUpTo(FnTurns, 1)

InitFn ==
    /\ neighbors = SampleGraph
    /\ roster = AgentOrder
    /\ history = <<>>
    /\ done = FALSE
    /\ policy = NoAttributes
    /\ pc = "idle"
    /\ cur = NoStep
    /\ last = NoOp
    /\ call = NoCall

FnCheckTermination ==
    /\ call = NoCall
    /\ \E h \in FnHistories :
         call' = [op |-> "check_termination", chat_history |-> h,
                  result |-> check_termination(h)]
    /\ UNCHANGED <<neighbors, roster, history, done, policy, pc, cur, last>>

FnSelectSpeaker ==
    /\ call = NoCall
    /\ \E agents \in Rosters, h \in FnHistories :
         call' = [op |-> "select_speaker", agents |-> agents, chat_history |-> h,
                  result |-> select_speaker(agents, h)]
    /\ UNCHANGED <<neighbors, roster, history, done, policy, pc, cur, last>>

FnSelectRecipient ==
    /\ call = NoCall
    /\ \E h \in FnShortHistories, candidates \in AgentLists :
         \E r \in select_recipient(h, candidates) :
            call' = [op |-> "select_recipient", chat_history |-> h,
                     candidates |-> candidates, result |-> r]
    /\ UNCHANGED <<neighbors, roster, history, done, policy, pc, cur, last>>

FnSuggestCandidates ==
    /\ call = NoCall
    /\ \E nbrs \in Graphs, h \in FnShortHistories, recipient \in Agents \cup {None} :
         call' = [op |-> "suggest_candidates", nbrs |-> nbrs, chat_history |-> h,
                  recipient |-> recipient,
                  result |-> suggest_candidates(nbrs, h, recipient)]
    /\ UNCHANGED <<neighbors, roster, history, done, policy, pc, cur, last>>

\* The star graph of main() with the neighbours of one agent replaced.
FnGraphs ==
    { [SampleGraph EXCEPT ![x] = n] : x \in Agents, n \in NbrChoices }

\* generate_reply up to its await, on any history and any neighbours of self.
FnCandidatePool ==
    /\ call = NoCall
    /\ \E self \in Agents, n \in NbrChoices, h \in FnHistories :
         LET nbrs == [SampleGraph EXCEPT ![self] = n]
         IN  call' = [op |-> "candidate_pool", self |-> self, nbrs |-> nbrs,
                      chat_history |-> h,
                      result |-> candidate_pool(self, nbrs, h)]
    /\ UNCHANGED <<neighbors, roster, history, done, policy, pc, cur, last>>

\* generate_reply as a whole, for every response of the inner agent.
FnGenerateReply ==
    /\ call = NoCall
    /\ \E self \in Agents, nbrs \in FnGraphs, h \in FnShortHistories :
         \E response \in InnerResponses(self) :
            LET pool == candidate_pool(self, nbrs, h)
            IN  /\ pool.raised = ""
                /\ \E res \in generate_reply(self, nbrs, h, pool.candidates, response) :
                      call' = [op |-> "generate_reply", self |-> self, nbrs |-> nbrs,
                               chat_history |-> h, response |-> response,
                               pool |-> pool.candidates, result |-> res]
    /\ UNCHANGED <<neighbors, roster, history, done, policy, pc, cur, last>>

NextFn ==
    \/ FnCheckTermination
    \/ FnSelectSpeaker
    \/ FnSelectRecipient
    \/ FnSuggestCandidates
    \/ FnCandidatePool
    \/ FnGenerateReply

SpecFn == InitFn /\ [][NextFn]_vars

----------------------------------------------------------------------------
(* Properties *)

\* The conversation is over: the last turn nominated no recipient.
Over(chat_history) ==
    Len(chat_history) > 0 /\ chat_history[Len(chat_history)].context.recipient = None

\* C1 (Spec). Routing invariant: for every adjacent pair of turns (i, i+1) of
\* the history, the agent that produced turn i+1 is the recipient stored in the
\* context of turn i.
C1_Routing ==
    \A i \in 1..(Len(history) - 1) :
        history[i + 1].source = history[i].context.recipient

\* A conversation of three turns in which the floor has changed hands.
C1_Witness ==
    /\ Len(history) >= 3
    /\ history[2].source # history[1].source
    /\ history[3].source # history[2].source

\* C2 (SpecFn). Termination correctness: check_termination returns Terminated,
\* with reason GOAL_REACHED and explanation "No recipient", if and only if the
\* history is non-empty and its last context has recipient None; otherwise, and
\* always on the empty history, it returns NotTerminated.
C2_TerminationCorrect ==
    call.op = "check_termination" =>
        LET h == call.chat_history
            noRecipient == Len(h) > 0 /\ h[Len(h)].context.recipient = None
        IN  /\ noRecipient =>
                 /\ call.result.terminated
                 /\ call.result.reason = "GOAL_REACHED"
                 /\ call.result.explanation = "No recipient"
            /\ ~noRecipient => call.result = NotTerminated
            /\ h = <<>> => ~call.result.terminated

\* Terminated on a two-turn history whose first turn did name a recipient.
C2_Witness ==
    /\ call.op = "check_termination"
    /\ Len(call.chat_history) = 2
    /\ call.chat_history[1].context.recipient # None
    /\ call.chat_history[2].context.recipient = None
    /\ call.result.terminated

\* C3 (Spec). Once the conversation has terminated, every read of done returns
\* true and leaves the history unchanged, and every further step() fails with
\* AlreadyDoneError without selecting a speaker, invoking an agent or appending
\* to the history.
C3_DoneIsFinal ==
    [][ Over(history) =>
          /\ history' = history
          /\ done /\ done'
          /\ pc' = "idle" /\ cur' = NoStep
          /\ last'.op \in {"done", "step"}
          /\ last'.op = "done" => last'.value = TRUE
          /\ last'.op = "step" =>
                /\ last'.outcome = "AlreadyDoneError"
                /\ last'.speaker = None ]_vars

\* step() has been called, and refused, after the conversation terminated.
C3_Witness ==
    /\ Over(history)
    /\ done
    /\ last.op = "step"
    /\ last.outcome = "AlreadyDoneError"

\* C4 (SpecFn). Single-candidate determinism: select_recipient called with
\* exactly one candidate returns that candidate, for every history, and does
\* not consult the random source.
C4_SingleCandidate ==
    (call.op = "select_recipient" /\ Len(call.candidates) = 1) =>
        /\ call.result.recipient = call.candidates[1]
        /\ ~call.result.random

\* A single-candidate call on a non-empty history.
C4_Witness ==
    /\ call.op = "select_recipient"
    /\ Len(call.candidates) = 1
    /\ Len(call.chat_history) = 1
    /\ call.result.recipient = call.candidates[1]

\* C5 (Spec). With an empty candidate pool select_recipient returns None; a
\* conversation of a single agent whose neighbour list is empty terminates after
\* exactly one turn: the history never grows past length 1, and once the first
\* step() has completed its recipient is None and done is true.
C5_EmptyPoolTerminates ==
    /\ (last.op = "step" /\ last.outcome = "ok" /\ last.candidates = Some(<<>>)) =>
          /\ Over(history)
          /\ done
    /\ (Len(roster) = 1 /\ neighbors[roster[1]] = Some(<<>>)) =>
          /\ Len(history) <= 1
          /\ Len(history) = 1 => (Over(history) /\ done)
          /\ (pc = "awaiting") => cur.candidates = Some(<<>>)

\* The lone agent with no neighbours has spoken once and the chat is done.
C5_Witness ==
    /\ Len(roster) = 1
    /\ neighbors[roster[1]] = Some(<<>>)
    /\ Len(history) = 1
    /\ history[1].source = roster[1]
    /\ last.op = "step" /\ last.outcome = "ok"
    /\ done

\* C6 (Spec). Terminal candidate emptiness: suggest_candidates with recipient
\* None returns an empty sequence, so every turn of the history whose context
\* has recipient None carries a candidates list, and that list is empty.
C6_TerminalCandidatesEmpty ==
    \A i \in 1..Len(history) :
        history[i].context.recipient = None =>
            /\ history[i].context.hasCandidates
            /\ history[i].context.candidates = Some(<<>>)

\* A turn that nominated no recipient although its speaker had candidates to
\* choose from and neighbours of its own.
C6_Witness ==
    /\ Len(history) >= 2
    /\ Over(history)
    /\ last.op = "step" /\ last.outcome = "ok"
    /\ Len(last.candidates.seq) >= 2
    /\ last_context(history).candidates = Some(<<>>)

\* C7 (Spec). On the empty history select_speaker returns the first agent of the
\* roster, with no hint, whatever the neighbour graph is: the first step()
\* invokes roster[0], and the first turn of every conversation is roster[0]'s.
C7_FirstSpeaker ==
    /\ (Len(history) = 0 /\ pc = "awaiting") =>
          (cur.speaker = roster[1] /\ cur.hint = None)
    /\ (Len(history) = 0 /\ last.op = "step") => last.speaker = roster[1]
    /\ Len(history) >= 1 => history[1].source = roster[1]

\* The first turn was taken, with a roster of several agents whose first agent
\* is nobody's neighbour.
C7_Witness ==
    /\ Len(roster) >= 2
    /\ Len(history) >= 1
    /\ history[1].source = roster[1]
    /\ \A x \in Agents : neighbors[x].some /\ roster[1] \notin Range(neighbors[x].seq)

\* C8 (SpecFn). select_speaker called on a non-empty history whose last context
\* has recipient None fails with an assertion error and returns no speaker.
C8_NoRecipientAsserts ==
    (call.op = "select_speaker" /\ Over(call.chat_history)) =>
        /\ call.result.raised = "AssertionError"
        /\ call.result.speaker = None

\* Such a call, on a history whose earlier turn did name a recipient.
C8_Witness ==
    /\ call.op = "select_speaker"
    /\ Len(call.chat_history) = 2
    /\ call.chat_history[1].context.recipient # None
    /\ Over(call.chat_history)
    /\ call.result.raised = "AssertionError"

\* C9 (Spec). A step() that does not complete successfully (an assertion fails,
\* the inner backend raises, or the caller abandons the await) appends nothing:
\* history and done are as before the call, and a later step() selects the same
\* speaker, with the same candidate pool, for the same turn.
C9_FailedStepAppendsNothing ==
    [][ (last'.op = "step" /\ last'.outcome # "ok" /\ (pc = "awaiting" \/ last' # last)) =>
          /\ history' = history
          /\ done' = done
          /\ pc' = "idle"
          /\ pc = "awaiting" =>
                /\ select_speaker(roster', history') = Selected(cur.speaker)
                /\ candidate_pool(cur.speaker, neighbors', history').candidates
                     = cur.candidates ]_vars

\* After two turns a step() failed on a backend error, and the caller's retry
\* is awaiting the same speaker again.
C9_Witness ==
    /\ Len(history) = 2
    /\ last.op = "step"
    /\ last.outcome = "BackendError"
    /\ pc = "awaiting"
    /\ cur.speaker = last.speaker
    /\ cur.speaker = history[2].context.recipient

\* C10 (Spec). The history is append-only: it starts empty; every successful
\* step() makes it exactly one turn longer; and no operation changes or removes
\* a turn already in it (its message, recipient and candidates included).
C10_AppendOnly ==
    /\ history = <<>>
    /\ [][ /\ \/ history' = history
             \/ /\ Len(history') = Len(history) + 1
                /\ SubSeq(history', 1, Len(history)) = history
                /\ last'.op = "step" /\ last'.outcome = "ok"
           /\ (pc = "awaiting" /\ last'.op = "step" /\ last'.outcome = "ok") =>
                 Len(history') = Len(history) + 1 ]_vars

\* A history of three turns, read again after the last one was appended.
C10_Witness ==
    /\ Len(history) = 3
    /\ last.op = "done"
    /\ history[1].context.recipient = history[2].source

\* C11 (Spec). In every reachable state the cached done flag equals the verdict
\* of check_termination on the stored history: done is true if and only if the
\* history is non-empty and its last context has recipient None. The policy
\* keeps no state of its own: record_turn_taken and reset change nothing.
C11_DoneIsVerdict ==
    /\ done = (Len(history) > 0 /\ history[Len(history)].context.recipient = None)
    /\ done = check_termination(history).terminated
    /\ policy = NoAttributes

\* A conversation that ended on its very first turn, although the speaker had
\* two candidates to choose from.
C11_Witness ==
    /\ Len(history) = 1
    /\ done
    /\ last.op = "step" /\ last.outcome = "ok"
    /\ Len(last.candidates.seq) = 2

\* The step() in flight completes with a turn that nominates r.
Nominates(r) ==
    /\ BackendReply
    /\ last'.outcome = "ok"
    /\ history'[Len(history')].context.recipient = r

\* C12 (Spec), as claimed. On every turn, whatever the size of the candidate
\* pool offered to the speaker (a pool of a single candidate included), the
\* speaker may nominate any one of the offered candidates or none, so the
\* conversation can terminate on every turn.
C12_AnyPoolMayTerminate ==
    pc = "awaiting" =>
        /\ ENABLED Nominates(None)
        /\ \A r \in Range(cur.candidates.seq) : ENABLED Nominates(r)

\* C12 (Spec), amended. On every turn the nominations open to the speaker are:
\* with a pool of exactly one candidate, that candidate and nothing else (the
\* conversation cannot terminate on that turn); with any other pool (empty, or
\* two or more candidates), each offered candidate and none.
C12_TerminationUnlessSingle ==
    pc = "awaiting" =>
        \A r \in Agents \cup {None} :
            (ENABLED Nominates(r)) <=>
                IF Len(cur.candidates.seq) = 1
                THEN r = cur.candidates.seq[1]
                ELSE r \in Range(cur.candidates.seq) \cup {None}

\* A speaker, in the middle of a conversation, is offered a single candidate.
C12_Witness ==
    /\ pc = "awaiting"
    /\ Len(history) >= 1
    /\ Len(cur.candidates.seq) = 1
    /\ cur.candidates.seq[1] # cur.speaker

\* select_recipient, called with candidates c, returns r.
Elects(c, r) ==
    /\ FnSelectRecipient
    /\ call'.candidates = c
    /\ call'.result.recipient = r

\* C13 (SpecFn). The recipient returned by select_recipient is None or a member
\* of the candidate sequence it was given; and when the pool has two or more
\* candidates, each candidate and None are all possible results.
C13_RecipientFromPool ==
    /\ call.op = "select_recipient" =>
          call.result.recipient \in Range(call.candidates) \cup {None}
    /\ call = NoCall =>
          \A c \in AgentLists :
              Len(c) >= 2 =>
                  \A r \in Range(c) \cup {None} : ENABLED Elects(c, r)

\* The random choice among two candidates fell on the second one.
C13_Witness ==
    /\ call.op = "select_recipient"
    /\ Len(call.candidates) = 2
    /\ call.result.random
    /\ call.result.recipient = call.candidates[2]

\* C14 (SpecFn). generate_reply takes its candidate pool from the candidates
\* field of the last context when the history is non-empty and that field is
\* present (also when the list is empty), and from the speaking agent's own
\* neighbours otherwise (empty history, or last context without candidates).
C14_PoolSource ==
    (call.op = "candidate_pool" /\ call.result.raised = "") =>
        LET h == call.chat_history
            own == call.nbrs[call.self]
        IN  call.result.candidates =
                IF Len(h) > 0 /\ h[Len(h)].context.hasCandidates
                THEN h[Len(h)].context.candidates
                ELSE own

\* The last context offers an empty list while the speaker has neighbours and
\* the turn before offered candidates: the pool is the empty list.
C14_Witness ==
    /\ call.op = "candidate_pool"
    /\ Len(call.chat_history) = 2
    /\ call.chat_history[1].context.hasCandidates
    /\ call.chat_history[1].context.candidates.seq # <<>>
    /\ call.chat_history[2].context.hasCandidates
    /\ call.chat_history[2].context.candidates = Some(<<>>)
    /\ call.nbrs[call.self].some
    /\ call.nbrs[call.self].seq # <<>>
    /\ call.result.candidates = Some(<<>>)

\* C15 (SpecFn). Every turn returned by generate_reply carries both routing
\* fields: recipient is the result of select_recipient on the pool, candidates
\* is the nominated recipient's neighbour list (empty when the recipient is
\* None). The other keys of a context supplied by the inner agent are kept, and
\* a recipient or candidates value it supplied is overwritten.
C15_RoutingStamped ==
    (call.op = "generate_reply" /\ call.result.raised = "") =>
        LET context == call.result.turn.context
            r == call.result.recipient
        IN  /\ [recipient |-> r, random |-> call.result.random]
                   \in select_recipient(call.chat_history, call.pool.seq)
            /\ r \in Range(call.pool.seq) \cup {None}
            /\ context.recipient = r
            /\ context.hasCandidates
            /\ context.candidates = IF r = None THEN Some(<<>>) ELSE call.nbrs[r]
            /\ context.other = (call.response.tuple /\ call.response.context.other)
            /\ call.result.turn.source = call.self

\* The inner agent supplied a context with a key of its own and with routing
\* values that differ from the ones generate_reply computed.
C15_Witness ==
    /\ call.op = "generate_reply"
    /\ call.result.raised = ""
    /\ call.response.tuple
    /\ call.response.context.hasCandidates
    /\ call.response.context.recipient = call.self
    /\ call.result.recipient \notin {call.self, None}
    /\ call.result.turn.context.recipient = call.result.recipient
    /\ call.result.turn.context.candidates # call.response.context.candidates
    /\ call.result.turn.context.other

\* C16 (Spec). In a run driven by step(), which refuses to run once done is
\* true, select_speaker is never called on a history whose last context has
\* recipient None: whenever step() would select a speaker the selection
\* succeeds, and no step() ever ended on the "Should have terminated already"
\* assertion.
C16_AssertionUnreachable ==
    /\ (pc = "idle" /\ ~already_done(done)) =>
          /\ ~Over(history)
          /\ select_speaker(roster, history).raised = ""
    /\ pc = "awaiting" => ~Over(history)
    /\ ~(last.op = "step" /\ last.outcome = "AssertionError" /\ last.speaker = None)

\* After a turn without recipient, in a conversation of several turns, step()
\* was called again and refused before any speaker was selected.
C16_Witness ==
    /\ Len(history) >= 2
    /\ Over(history)
    /\ last.op = "step"
    /\ last.outcome = "AlreadyDoneError"
    /\ last.speaker = None

\* C17 (Spec). With the default suggest_candidates and a neighbour graph that
\* does not change during the run, the candidate pool used on every turn equals
\* the speaking agent's own neighbour list: the candidates read from the
\* previous context coincide with the speaker's neighbours.
C17_PoolIsNeighbours ==
    /\ pc = "awaiting" => cur.candidates = neighbors[cur.speaker]
    /\ (last.op = "step" /\ last.outcome = "ok") =>
          last.candidates = neighbors[last.speaker]
    /\ (Len(history) > 0 /\ ~Over(history)) =>
          /\ history[Len(history)].context.hasCandidates
          /\ history[Len(history)].context.candidates
               = neighbors[history[Len(history)].context.recipient]

\* A later turn, taken by another agent than the previous one, whose pool was
\* read from the previous context.
C17_Witness ==
    /\ Len(history) >= 2
    /\ last.op = "step" /\ last.outcome = "ok"
    /\ last.speaker # history[Len(history) - 1].source
    /\ last.candidates = history[Len(history) - 1].context.candidates
    /\ Len(last.candidates.seq) >= 2

GraphWithinRoster ==
    \A x \in Range(roster) : Range(neighbors[x].seq) \subseteq Range(roster)

\* C19 (Spec). Provided every agent's neighbour list contains only agents of the
\* roster, the speaker of every turn, and of the step() in flight, is a member
\* of the roster. select_speaker itself does not check the recipient against
\* the roster: whatever the graph, the speaker it selects on a non-empty history
\* is the last recipient, in the roster or not.
C19_SpeakersInRoster ==
    /\ GraphWithinRoster =>
          /\ \A i \in 1..Len(history) : history[i].source \in Range(roster)
          /\ pc = "awaiting" => cur.speaker \in Range(roster)
    /\ (pc = "awaiting" /\ Len(history) > 0) =>
          cur.speaker = history[Len(history)].context.recipient
    /\ (last.op = "step" /\ last.outcome = "ok" /\ Len(history) > 1) =>
          last.speaker = history[Len(history) - 1].context.recipient

\* A roster of two agents who are each other's neighbours, while the agent
\* left out of the roster has neighbours of its own: three turns, all taken by
\* roster members.
C19_Witness ==
    /\ Len(roster) = 2
    /\ GraphWithinRoster
    /\ \E x \in Agents \ Range(roster) : neighbors[x].some /\ neighbors[x].seq # <<>>
    /\ Len(history) = 3
    /\ history[2].source # history[1].source
    /\ \A i \in 1..3 : history[i].source \in Range(roster)

\* Reachable when the graph leaves the roster: a turn taken by an agent that
\* is not in the roster.
C19_OutsiderSpeaks ==
    \E i \in 1..Len(history) : history[i].source \notin Range(roster)

====
